---- MODULE Spec2Model ----
(***************************************************************************)
(* Remote configuration store and poller of gobrake (remote_config.go)     *)
(* and the notice filters (filter.go).                                     *)
(*                                                                         *)
(* The store (remoteConfig) holds one snapshot (rc.JSON), the static       *)
(* options (rc.opt) and the poller (rc.poller: a ticker and a closer       *)
(* channel).  Goroutines are modelled by program counters; every panic of  *)
(* the Go runtime ends the process.                                        *)
(* A filter is a function of a notice; strings are sequences of tokens,    *)
(* with "/" and ":" tokens of their own, and a map value carries its type. *)
(***************************************************************************)
EXTENDS Integers, Sequences, FiniteSets, TLC

(***************************************************************************)
(* int64 arithmetic.  PollSec is an int64 and time.Duration is an int64    *)
(* count of nanoseconds; a value is kept as its two's complement digits,   *)
(* least significant first, so that products wrap modulo 2^64 as in Go.    *)
(***************************************************************************)
Base == 256

Limbs == 8

RECURSIVE Digits(_, _)
Digits(n, k) == IF k = 0 THEN <<>> ELSE <<n % Base>> \o Digits(n \div Base, k - 1)

I64(n) == Digits(n, Limbs)

Zero64 == I64(0)

IsNeg(a) == a[Len(a)] >= Base \div 2

IsPos(a) == ~IsNeg(a) /\ \E i \in 1..Len(a) : a[i] # 0

RECURSIVE Conv(_, _, _, _)
Conv(a, b, k, i) == IF i = 0 THEN 0 ELSE a[i] * b[k + 1 - i] + Conv(a, b, k, i - 1)

RECURSIVE MulDigits(_, _, _, _)
MulDigits(a, b, k, carry) ==
    IF k > Len(a) THEN <<>>
    ELSE LET s == carry + Conv(a, b, k, k)
         IN <<s % Base>> \o MulDigits(a, b, k + 1, s \div Base)

\* the product of two int64 values, modulo 2^64
Mul64(a, b) == MulDigits(a, b, 1, 0)

Second == I64(1000000000)

Minute == Mul64(I64(60), Second)

(***************************************************************************)
(* Constants of remote_config.go.                                          *)
(***************************************************************************)
defaultInterval == Mul64(I64(10), Minute)

apiVer == "2020-06-18"

defaultBaseURL == <<"https://v1-staging-notifier-configs.s3.amazonaws.com">>

apmSetting == "apm"

errorSetting == "errors"

\* configRoutePattern "%s/%s/config/%d/config.json"; a string is a sequence of
\* tokens and "/" is a token of its own
DigitStr == <<"0", "1", "2", "3", "4", "5", "6", "7", "8", "9">>

\* the verb %d
RECURSIVE FormatInt(_)
FormatInt(n) ==
    IF n < 10 THEN <<DigitStr[n + 1]>> ELSE FormatInt(n \div 10) \o <<DigitStr[(n % 10) + 1]>>

configRoutePattern(base, ver, id) ==
    base \o <<"/", ver, "/", "config", "/">> \o FormatInt(id) \o <<"/", "config.json">>

(***************************************************************************)
(* Values.                                                                 *)
(***************************************************************************)
\* a nil *RemoteConfigJSON
NilJSON == [nil |-> TRUE]

\* &RemoteConfigJSON{}: every field at its zero value
EmptyJSON == [PollSec |-> Zero64, ConfigRoute |-> <<>>, RemoteSettings |-> <<>>]

VARIABLES
    opt,        \* rc.opt: the static options
    baseURL,    \* rc.baseURL
    JSON,       \* rc.JSON: the snapshot, or NilJSON
    poller,     \* rc.poller: an index of pollers, 0 when nil
    pollers,    \* the poller objects made so far: [ticker, closed]
    tickers,    \* the time.Ticker objects made so far: [d, armed, tick]
    pc,         \* per goroutine (0: the caller of Poll, k: the k-th loop): position
    cfg,        \* per goroutine: the local cfg of UpdateConfig
    url,        \* per goroutine: the URL of its http.Get in flight
    sel,        \* per loop: the channels its select statement waits on
    spc,        \* caller of StopPolling: position
    sp,         \* caller of StopPolling: the receiver p of poller.Stop
    stopAt,     \* what the loop was doing when StopPolling was called first
    rpc,        \* reader: position inside the call it is making
    rop,        \* reader: the method it calls
    rptr,       \* reader: the snapshot its first load of rc.JSON returned
    rsnaps,     \* reader: the snapshots that were current during the call
    rret,       \* reader: the value the call returned
    cbCount,    \* the number of calls of the callback
    cbSeen,     \* the snapshot the last call of the callback found in the store
    nfetch,     \* the number of http.Get calls
    nlogs,      \* the number of lines logged
    npoll,      \* the number of Poll calls
    nstop,      \* the number of StopPolling calls that returned
    servedLate, \* a loop served a tick although its closer was closed
    panicked,   \* the runtime panic that ended the process: [in, msg], or NoPanic
    notice,     \* the notice the filters of the notifier are applied to
    before,     \* the notice as the filter applied last received it
    fop,        \* the filter applied last, its arguments and what it met
    napply      \* the number of filters applied to the notice

vars == <<opt, baseURL, JSON, poller, pollers, tickers, pc, cfg, url, sel, spc, sp, stopAt,
          rpc, rop, rptr, rsnaps, rret, cbCount, cbSeen, nfetch, nlogs, npoll, nstop,
          servedLate, panicked, notice, before, fop, napply>>

filterVars == <<notice, before, fop, napply>>

(***************************************************************************)
(* Derived values of the store, as functions of one snapshot.              *)
(***************************************************************************)
\* Interval and ConfigRoute load rc.JSON twice: once for the test and once
\* for the value they return
PollSecSet(j) == IsPos(j.PollSec)

PollSecDuration(j) == Mul64(j.PollSec, Second)

Interval(j) == IF PollSecSet(j) THEN PollSecDuration(j) ELSE defaultInterval

\* a ConfigRoute that never looks at the override of the snapshot
RouteSetNever(j) == FALSE

RouteSet(j) == j.ConfigRoute # <<>>

RouteOf(j, o) == configRoutePattern(j.ConfigRoute, apiVer, o.ProjectId)

ConfigRoute(j, o, b) ==
    IF RouteSet(j) THEN RouteOf(j, o) ELSE configRoutePattern(b, apiVer, o.ProjectId)

\* for _, s := range settings { if s.Name == name { return s.Enabled } }
RECURSIVE enabledFrom(_, _, _, _)
enabledFrom(settings, i, name, dflt) ==
    IF i > Len(settings) THEN dflt
    ELSE IF settings[i].Name = name THEN settings[i].Enabled
    ELSE enabledFrom(settings, i + 1, name, dflt)

\* a scan that gives up after the first entry
EnabledFirstEntryOnly(j, o) ==
    IF j.RemoteSettings # <<>> /\ j.RemoteSettings[1].Name = errorSetting
    THEN j.RemoteSettings[1].Enabled
    ELSE ~o.DisableErrorNotifications

EnabledErrorNotifications(j, o) ==
    enabledFrom(j.RemoteSettings, 1, errorSetting, ~o.DisableErrorNotifications)

EnabledAPM(j, o) ==
    enabledFrom(j.RemoteSettings, 1, apmSetting, ~o.DisableAPM)

\* for _, s := range settings { if match { return s.Endpoint } else { return host } }
\* both branches of the loop body return, so only the first entry is looked at
hostFrom(settings, name, host) ==
    IF settings = <<>> THEN host
    ELSE IF settings[1].Name = name /\ settings[1].Endpoint # "" THEN settings[1].Endpoint
    ELSE host

ErrorHost(j, o) == hostFrom(j.RemoteSettings, errorSetting, o.Host)

APMHost(j, o) == hostFrom(j.RemoteSettings, apmSetting, o.APMHost)

(***************************************************************************)
(* Bounds of the model.                                                    *)
(***************************************************************************)
\* http.Get calls in one run
MaxFetch == 2

\* Poll calls on one store (SpecRepoll)
MaxPolls == 2

\* StopPolling calls in one run
MaxStops == 2

\* entries of a settings list (SpecDerive)
MaxSettings == 2

Goroutines == 0..MaxPolls

Loops == 1..MaxPolls

(***************************************************************************)
(* Responses of the configuration server.  A body is its text, a sequence  *)
(* of tokens, and for a JSON object the members between the braces.        *)
(***************************************************************************)
Member(k, v) == [k |-> k, v |-> v]

Object(ms) == [text |-> <<"{", "}">>, members |-> ms]

Text(t) == [text |-> t, members |-> <<>>]

Route1 == <<"http://route.test">>

\* 9223400000 seconds: more nanoseconds than an int64 holds
HugePollSec == Mul64(I64(92234), I64(100000))

Bodies ==
    { Text(<<"<?xml ", "<Error>AccessDenied</Error>">>),
      Text(<<"not found">>),
      Text(<<"{">>),
      Text(<<"null">>),
      Object(<<>>),
      Object(<<Member("hello", "hi")>>),
      Object(<<Member("poll_sec", I64(1))>>),
      Object(<<Member("poll_sec", I64(3)), Member("config_route", Route1),
               Member("settings", <<[name |-> errorSetting, enabled |-> FALSE,
                                     endpoint |-> "null"]>>)>>),
      Object(<<Member("poll_sec", HugePollSec)>>) }

Statuses == {200, 403, 404, 410}

\* http.Get failed; the body could not be read to its end; a response
Responses ==
    {[kind |-> "transport", status |-> 0, body |-> Text(<<>>)],
     [kind |-> "truncated", status |-> 200, body |-> Text(<<>>)]}
    \cup {[kind |-> "response", status |-> st, body |-> b] : st \in Statuses, b \in Bodies}

\* strings.HasPrefix(string(body), "<?xml ")
HasXMLPrefix(body) == body.text # <<>> /\ body.text[1] = "<?xml "

\* json.Unmarshal of one member into the struct: unknown keys are skipped,
\* a null endpoint leaves the zero value
setField(j, m) ==
    IF m.k = "poll_sec" THEN [j EXCEPT !.PollSec = m.v]
    ELSE IF m.k = "config_route" THEN [j EXCEPT !.ConfigRoute = m.v]
    ELSE IF m.k = "settings"
    THEN [j EXCEPT !.RemoteSettings =
              [i \in 1..Len(m.v) |->
                  [Name |-> m.v[i].name, Enabled |-> m.v[i].enabled,
                   Endpoint |-> IF m.v[i].endpoint = "null" THEN "" ELSE m.v[i].endpoint]]]
    ELSE j

RECURSIVE decodeFrom(_, _, _)
decodeFrom(ms, i, j) ==
    IF i > Len(ms) THEN j ELSE decodeFrom(ms, i + 1, setField(j, ms[i]))

\* a decoder that refuses the members the struct has no field for
UnmarshalStrict(body) ==
    IF body.text = <<"null">> THEN [j |-> NilJSON, err |-> <<>>]
    ELSE IF body.text = <<"{", "}">>
    THEN IF \E i \in 1..Len(body.members) :
                body.members[i].k \notin {"poll_sec", "config_route", "settings"}
         THEN [j |-> NilJSON, err |-> <<"json: unknown field">>]
         ELSE [j |-> decodeFrom(body.members, 1, EmptyJSON), err |-> <<>>]
    ELSE [j |-> NilJSON, err |-> <<"invalid character">>]

\* json.Unmarshal(body, &j) with var j *RemoteConfigJSON
Unmarshal(body) ==
    IF body.text = <<"null">> THEN [j |-> NilJSON, err |-> <<>>]
    ELSE IF body.text = <<"{", "}">>
    THEN [j |-> decodeFrom(body.members, 1, EmptyJSON), err |-> <<>>]
    ELSE IF body.text = <<>> \/ body.text = <<"{">>
    THEN [j |-> NilJSON, err |-> <<"unexpected end of JSON input">>]
    ELSE [j |-> NilJSON, err |-> <<"invalid character">>]

\* fetchConfig after http.Get returned: the status code is not looked at
fetchConfig(resp, cur) ==
    IF resp.kind = "transport" THEN [j |-> cur, err |-> <<"Get: connection refused">>]
    ELSE IF HasXMLPrefix(resp.body) THEN [j |-> cur, err |-> resp.body.text]
    ELSE LET u == Unmarshal(resp.body)
         IN IF u.err # <<>> THEN [j |-> cur, err |-> u.err] ELSE [j |-> u.j, err |-> <<>>]

\* logger.Printf(fmt.Sprintf("fetchConfig failed: %s", err))
LogLine(e) == <<"fetchConfig failed: ">> \o e

(***************************************************************************)
(* The state after newRemoteConfig(opt).                                   *)
(***************************************************************************)
Options(disErr, disAPM, base) ==
    [ProjectId |-> 1, Host |-> "https://api.example.com",
     APMHost |-> "https://apm.example.com", DisableErrorNotifications |-> disErr,
     DisableAPM |-> disAPM, RemoteConfigBaseURL |-> base, Environment |-> <<>>,
     Revision |-> <<>>]

\* remoteConfig.init
init(base) == IF base = <<>> THEN defaultBaseURL ELSE base

NoSel == [p |-> 0, t |-> 0]

NoPanic == [in |-> "", msg |-> ""]

InitWith(o, j) ==
    /\ opt = o
    /\ baseURL = init(o.RemoteConfigBaseURL)
    /\ JSON = j
    /\ poller = 0
    /\ pollers = <<>>
    /\ tickers = <<>>
    /\ pc = [g \in Goroutines |-> IF g = 0 THEN "idle" ELSE "none"]
    /\ cfg = [g \in Goroutines |-> NilJSON]
    /\ url = [g \in Goroutines |-> <<>>]
    /\ sel = [k \in Loops |-> NoSel]
    /\ spc = "idle"
    /\ sp = 0
    /\ stopAt = "never"
    /\ rpc = "idle"
    /\ rop = "none"
    /\ rptr = NilJSON
    /\ rsnaps = {}
    /\ rret = <<>>
    /\ cbCount = 0
    /\ cbSeen = NilJSON
    /\ nfetch = 0
    /\ nlogs = 0
    /\ npoll = 0
    /\ nstop = 0
    /\ servedLate = FALSE
    /\ panicked = NoPanic

\* no notice is being filtered
NoNotice == [Env |-> <<>>, Context |-> <<>>, Session |-> <<>>, Errors |-> <<>>]

\* no lookup of the version-control reader
NoVCS == [checkout |-> "none", revision |-> "none"]

NoFilter == [name |-> "none", keys |-> <<>>, vcs |-> NoVCS, lookups |-> 0]

FiltersIdle ==
    /\ notice = NoNotice
    /\ before = NoNotice
    /\ fop = NoFilter
    /\ napply = 0

Init == InitWith(Options(FALSE, FALSE, <<>>), EmptyJSON) /\ FiltersIdle

(***************************************************************************)
(* Panics end the process: no action is enabled afterwards.                *)
(***************************************************************************)
Running == panicked = NoPanic

Panic(site, msg) ==
    /\ panicked' = [in |-> site, msg |-> msg]
    /\ UNCHANGED <<filterVars, opt, baseURL, JSON, poller, pollers, tickers, pc, cfg, url, sel, spc,
                   sp, stopAt, rpc, rop, rptr, rsnaps, rret, cbCount, cbSeen, nfetch, nlogs,
                   npoll, nstop, servedLate>>

NilDeref == "invalid memory address or nil pointer dereference"

BadInterval == "non-positive interval for NewTicker"

ClosedTwice == "close of closed channel"

readerVars == <<rpc, rop, rptr, rsnaps, rret>>

stopVars == <<spc, sp, stopAt, nstop>>

fetchVars == <<cfg, url, nfetch, nlogs>>

\* time.NewTicker(d)
NewTicker(d) == [d |-> d, armed |-> TRUE, tick |-> FALSE]

\* (*time.Ticker).Stop: no more ticks are sent; the channel is not drained
StopTicker(ts, i) == [ts EXCEPT ![i].armed = FALSE]

\* a loop that fetches again as soon as UpdateConfig has returned
ReturnedToFetch(g) == IF g = 0 THEN "go" ELSE "get"

\* where UpdateConfig returns to: Poll (goroutine 0) or the loop of poll
Returned(g) == IF g = 0 THEN "go" ELSE "select"

(***************************************************************************)
(* Poll: rc.poller = newPoller(rc.Interval()), then UpdateConfig, then     *)
(* go rc.poll(cb).                                                         *)
(***************************************************************************)
PollFrom(from) ==
    /\ Running
    /\ pc[0] = from
    /\ IF JSON = NilJSON THEN Panic("Poll", NilDeref)
       ELSE IF ~IsPos(Interval(JSON)) THEN Panic("Poll", BadInterval)
       ELSE /\ tickers' = Append(tickers, NewTicker(Interval(JSON)))
            /\ pollers' = Append(pollers, [ticker |-> Len(tickers) + 1, closed |-> FALSE])
            /\ poller' = Len(pollers) + 1
            /\ pc' = [pc EXCEPT ![0] = "get"]
            /\ npoll' = npoll + 1
            /\ UNCHANGED <<filterVars, opt, baseURL, JSON, sel, cbCount, cbSeen, servedLate, panicked>>
            /\ UNCHANGED <<readerVars, stopVars, fetchVars>>

\* the first Poll on a store
Poll == PollFrom("idle")

\* Poll on a store that was polled before
Repoll == npoll < MaxPolls /\ PollFrom("returned")

Poll_go ==
    /\ Running
    /\ pc[0] = "go"
    /\ pc' = [pc EXCEPT ![0] = "returned", ![npoll] = "select"]
    /\ UNCHANGED <<filterVars, opt, baseURL, JSON, poller, pollers, tickers, sel, cbCount, cbSeen,
                   npoll, servedLate, panicked>>
    /\ UNCHANGED <<readerVars, stopVars, fetchVars>>

(***************************************************************************)
(* UpdateConfig, statement by statement, run by goroutine g.               *)
(***************************************************************************)
\* http.Get(rc.ConfigRoute())
fetchConfig_Get(g) ==
    /\ Running
    /\ pc[g] = "get"
    /\ nfetch < MaxFetch
    /\ IF JSON = NilJSON THEN Panic("UpdateConfig", NilDeref)
       ELSE /\ url' = [url EXCEPT ![g] = ConfigRoute(JSON, opt, baseURL)]
            /\ nfetch' = nfetch + 1
            /\ pc' = [pc EXCEPT ![g] = "wait"]
            /\ UNCHANGED <<filterVars, opt, baseURL, JSON, poller, pollers, tickers, cfg, sel, cbCount,
                           cbSeen, nlogs, npoll, servedLate, panicked>>
            /\ UNCHANGED <<readerVars, stopVars>>

\* an UpdateConfig that logs the error and goes on
afterFetchGoesOn(g, e) == "stop"

\* a loop that returns where poll has its continue
afterFetchEndsLoop(g, e) == IF e # <<>> THEN (IF g = 0 THEN "go" ELSE "exited") ELSE "stop"

\* if err != nil { return err }
afterFetch(g, e) == IF e # <<>> THEN Returned(g) ELSE "stop"

\* the lines logged for one response: by fetchConfig when the body could not
\* be read, and by Poll or poll when UpdateConfig returned an error
Logged(resp, e) ==
    (IF resp.kind = "truncated" THEN 1 ELSE 0) + (IF e # <<>> THEN 1 ELSE 0)

\* the rest of fetchConfig; then cfg, err := ...; if err != nil { return err }
fetchConfig_Return(g, resp) ==
    /\ Running
    /\ pc[g] = "wait"
    /\ LET res == fetchConfig(resp, JSON)
       IN /\ cfg' = [cfg EXCEPT ![g] = IF res.err # <<>> THEN NilJSON ELSE res.j]
          /\ nlogs' = nlogs + Logged(resp, res.err)
          /\ pc' = [pc EXCEPT ![g] = afterFetch(g, res.err)]
    /\ url' = [url EXCEPT ![g] = <<>>]
    /\ UNCHANGED <<filterVars, opt, baseURL, JSON, poller, pollers, tickers, sel, cbCount, cbSeen,
                   nfetch, npoll, servedLate, panicked>>
    /\ UNCHANGED <<readerVars, stopVars>>

\* rc.poller.ticker.Stop()
UpdateConfig_Stop(g) ==
    /\ Running
    /\ pc[g] = "stop"
    /\ tickers' = StopTicker(tickers, pollers[poller].ticker)
    /\ pc' = [pc EXCEPT ![g] = "set"]
    /\ UNCHANGED <<filterVars, opt, baseURL, JSON, poller, pollers, sel, cbCount, cbSeen, npoll,
                   servedLate, panicked>>
    /\ UNCHANGED <<readerVars, stopVars, fetchVars>>

\* rc.JSON = cfg
UpdateConfig_Set(g) ==
    /\ Running
    /\ pc[g] = "set"
    /\ JSON' = cfg[g]
    /\ rsnaps' = IF rpc = "second" THEN rsnaps \cup {cfg[g]} ELSE rsnaps
    /\ pc' = [pc EXCEPT ![g] = "arm"]
    /\ UNCHANGED <<filterVars, opt, baseURL, poller, pollers, tickers, sel, rpc, rop, rptr, rret,
                   cbCount, cbSeen, npoll, servedLate, panicked>>
    /\ UNCHANGED <<stopVars, fetchVars>>

\* the interval of the ticker that was stopped
rearmIntervalKept(g) == tickers[pollers[poller].ticker].d

\* the interval of the ticker UpdateConfig makes
rearmInterval(g) == Interval(JSON)

\* rc.poller.ticker = time.NewTicker(rc.Interval())
UpdateConfig_NewTicker(g) ==
    /\ Running
    /\ pc[g] = "arm"
    /\ IF JSON = NilJSON THEN Panic("UpdateConfig", NilDeref)
       ELSE IF ~IsPos(rearmInterval(g)) THEN Panic("UpdateConfig", BadInterval)
       ELSE /\ tickers' = Append(tickers, NewTicker(rearmInterval(g)))
            /\ pollers' = [pollers EXCEPT ![poller].ticker = Len(tickers) + 1]
            /\ pc' = [pc EXCEPT ![g] = "cb"]
            /\ UNCHANGED <<filterVars, opt, baseURL, JSON, poller, sel, cbCount, cbSeen, npoll,
                           servedLate, panicked>>
            /\ UNCHANGED <<readerVars, stopVars, fetchVars>>

\* cb(rc); return nil
UpdateConfig_cb(g) ==
    /\ Running
    /\ pc[g] = "cb"
    /\ cbCount' = cbCount + 1
    /\ cbSeen' = JSON
    /\ cfg' = [cfg EXCEPT ![g] = NilJSON]
    /\ pc' = [pc EXCEPT ![g] = Returned(g)]
    /\ UNCHANGED <<filterVars, opt, baseURL, JSON, poller, pollers, tickers, sel, npoll, servedLate,
                   panicked>>
    /\ UNCHANGED <<readerVars, stopVars, url, nfetch, nlogs>>

(***************************************************************************)
(* poll: the background loop k.                                            *)
(***************************************************************************)
\* entering select: the channel operands are evaluated
poll_select(k) ==
    /\ Running
    /\ pc[k] = "select"
    /\ sel' = [sel EXCEPT ![k] = [p |-> poller, t |-> pollers[poller].ticker]]
    /\ pc' = [pc EXCEPT ![k] = "blocked"]
    /\ UNCHANGED <<filterVars, opt, baseURL, JSON, poller, pollers, tickers, cbCount, cbSeen, npoll,
                   servedLate, panicked>>
    /\ UNCHANGED <<readerVars, stopVars, fetchVars>>

\* case <-rc.poller.closer: return
poll_closer(k) ==
    /\ Running
    /\ pc[k] = "blocked"
    /\ pollers[sel[k].p].closed
    /\ pc' = [pc EXCEPT ![k] = "exited"]
    /\ UNCHANGED <<filterVars, opt, baseURL, JSON, poller, pollers, tickers, sel, cbCount, cbSeen,
                   npoll, servedLate, panicked>>
    /\ UNCHANGED <<readerVars, stopVars, fetchVars>>

\* case <-rc.poller.ticker.C: when both channels are ready select takes either
poll_tick(k) ==
    /\ Running
    /\ pc[k] = "blocked"
    /\ tickers[sel[k].t].tick
    /\ tickers' = [tickers EXCEPT ![sel[k].t].tick = FALSE]
    /\ servedLate' = (servedLate \/ pollers[sel[k].p].closed)
    /\ pc' = [pc EXCEPT ![k] = "get"]
    /\ UNCHANGED <<filterVars, opt, baseURL, JSON, poller, pollers, sel, cbCount, cbSeen, npoll,
                   panicked>>
    /\ UNCHANGED <<readerVars, stopVars, fetchVars>>

\* an armed ticker sends a tick; its channel holds one
TickerFire(i) ==
    /\ Running
    /\ tickers[i].armed
    /\ ~tickers[i].tick
    /\ tickers' = [tickers EXCEPT ![i].tick = TRUE]
    /\ UNCHANGED <<filterVars, opt, baseURL, JSON, poller, pollers, pc, sel, cbCount, cbSeen, npoll,
                   servedLate, panicked>>
    /\ UNCHANGED <<readerVars, stopVars, fetchVars>>

(***************************************************************************)
(* StopPolling: rc.poller.Stop(), that is p.ticker.Stop(); close(p.closer) *)
(***************************************************************************)
\* what the loops do: one is inside UpdateConfig, or one waits in its select,
\* or none runs
LoopAt ==
    IF \E k \in Loops : pc[k] \in {"get", "wait", "stop", "set", "arm", "cb"} THEN "fetching"
    ELSE IF \E k \in Loops : pc[k] \in {"select", "blocked"} THEN "waiting"
    ELSE "no loop"

StopPolling_Stop ==
    /\ Running
    /\ spc = "idle"
    /\ nstop < MaxStops
    /\ IF poller = 0 THEN Panic("StopPolling", NilDeref)
       ELSE /\ tickers' = StopTicker(tickers, pollers[poller].ticker)
            /\ sp' = poller
            /\ spc' = "close"
            /\ stopAt' = IF stopAt = "never" THEN LoopAt ELSE stopAt
            /\ UNCHANGED <<filterVars, opt, baseURL, JSON, poller, pollers, pc, sel, cbCount, cbSeen,
                           npoll, nstop, servedLate, panicked>>
            /\ UNCHANGED <<readerVars, fetchVars>>

StopPolling_close ==
    /\ Running
    /\ spc = "close"
    /\ IF pollers[sp].closed THEN Panic("StopPolling", ClosedTwice)
       ELSE /\ pollers' = [pollers EXCEPT ![sp].closed = TRUE]
            /\ spc' = "idle"
            /\ nstop' = nstop + 1
            /\ UNCHANGED <<filterVars, opt, baseURL, JSON, poller, tickers, pc, sel, sp, stopAt, cbCount,
                           cbSeen, npoll, servedLate, panicked>>
            /\ UNCHANGED <<readerVars, fetchVars>>

(***************************************************************************)
(* A reader: any goroutine that calls one of the six derived values while  *)
(* the poller may replace rc.JSON.                                         *)
(***************************************************************************)
Methods ==
    {"Interval", "ConfigRoute", "EnabledErrorNotifications", "EnabledAPM", "ErrorHost",
     "APMHost"}

\* the value of method m on the single snapshot j
Eval(m, j) ==
    CASE m = "Interval" -> Interval(j)
      [] m = "ConfigRoute" -> ConfigRoute(j, opt, baseURL)
      [] m = "EnabledErrorNotifications" -> EnabledErrorNotifications(j, opt)
      [] m = "EnabledAPM" -> EnabledAPM(j, opt)
      [] m = "ErrorHost" -> ErrorHost(j, opt)
      [] m = "APMHost" -> APMHost(j, opt)

\* the call up to the statement that loads rc.JSON a second time, if any
Reader_call(m) ==
    /\ Running
    /\ rpc = "idle"
    /\ IF JSON = NilJSON THEN Panic("reader", NilDeref)
       ELSE /\ rop' = m
            /\ rptr' = JSON
            /\ rsnaps' = {JSON}
            /\ IF (m = "Interval" /\ PollSecSet(JSON)) \/ (m = "ConfigRoute" /\ RouteSet(JSON))
               THEN rpc' = "second" /\ rret' = <<>>
               ELSE rpc' = "done" /\ rret' = Eval(m, JSON)
            /\ UNCHANGED <<filterVars, opt, baseURL, JSON, poller, pollers, tickers, pc, sel, cbCount,
                           cbSeen, npoll, servedLate, panicked>>
            /\ UNCHANGED <<stopVars, fetchVars>>

\* return time.Duration(rc.JSON.PollSec) * time.Second, or the Sprintf of ConfigRoute
Reader_second ==
    /\ Running
    /\ rpc = "second"
    /\ IF JSON = NilJSON THEN Panic("reader", NilDeref)
       ELSE /\ rret' = IF rop = "Interval" THEN PollSecDuration(JSON) ELSE RouteOf(JSON, opt)
            /\ rpc' = "done"
            /\ UNCHANGED <<filterVars, opt, baseURL, JSON, poller, pollers, tickers, pc, sel, rop, rptr,
                           rsnaps, cbCount, cbSeen, npoll, servedLate, panicked>>
            /\ UNCHANGED <<stopVars, fetchVars>>

Reader_return ==
    /\ Running
    /\ rpc = "done"
    /\ rpc' = "idle"
    /\ rop' = "none"
    /\ rptr' = NilJSON
    /\ rsnaps' = {}
    /\ rret' = <<>>
    /\ UNCHANGED <<filterVars, opt, baseURL, JSON, poller, pollers, tickers, pc, sel, cbCount, cbSeen,
                   npoll, servedLate, panicked>>
    /\ UNCHANGED <<stopVars, fetchVars>>

(***************************************************************************)
(* The filters of filter.go.  A notice has three maps from keys to values  *)
(* (Env, Context, Session) and a list of errors, each with a backtrace.    *)
(* A string is a sequence of tokens; a value of a map is an interface{}:   *)
(* its dynamic type and its text.                                          *)
(***************************************************************************)
Str(s) == [t |-> "string", v |-> s]

NonStr(s) == [t |-> "int", v |-> s]

\* m[k] = v on a Go map
Put(m, k, v) == [x \in DOMAIN m \cup {k} |-> IF x = k THEN v ELSE m[x]]

\* s, ok := m[k].(string): the zero value when k is absent or not a string
AsString(m, k) ==
    IF k \in DOMAIN m /\ m[k].t = "string" THEN [s |-> m[k].v, ok |-> TRUE]
    ELSE [s |-> <<>>, ok |-> FALSE]

\* const filtered = "[Filtered]"
filtered == <<"[Filtered]">>

\* a key of NewBlacklistKeysFilter: a string, a *regexp.Regexp made of a
\* literal with optional ^ and $, or a value of another type
StringKey(s) == [type |-> "string", lit |-> s, bol |-> FALSE, eol |-> FALSE]

RegexpKey(bol, lit, eol) == [type |-> "regexp", lit |-> lit, bol |-> bol, eol |-> eol]

OtherKey == [type |-> "int", lit |-> <<"42">>, bol |-> FALSE, eol |-> FALSE]

\* a match of the whole key instead of a search in it
MatchWholeKey(re, k) == k = re.lit

\* (*regexp.Regexp).MatchString: the literal occurs in k, at the start of k
\* for ^ and at its end for $
MatchString(re, k) ==
    \E i \in 1..(Len(k) - Len(re.lit) + 1) :
        /\ SubSeq(k, i, i + Len(re.lit) - 1) = re.lit
        /\ re.bol => i = 1
        /\ re.eol => i + Len(re.lit) - 1 = Len(k)

\* the case of the type switch of filterByKey that key takes
matches(key, k) == IF key.type = "string" THEN k = key.lit ELSE MatchString(key, k)

Unsupported(key) == key.type \notin {"string", "regexp"}

\* filterByKey for a string or a *regexp.Regexp
filterByKey(values, key) ==
    [k \in DOMAIN values |-> IF matches(key, k) THEN Str(filtered) ELSE values[k]]

\* the function NewBlacklistKeysFilter returns, from key i on: the notice it
\* has reached, and whether filterByKey panicked on a key
RECURSIVE blacklistFrom(_, _, _)
blacklistFrom(keys, i, n) ==
    IF i > Len(keys) THEN [notice |-> n, panic |-> FALSE]
    ELSE IF Unsupported(keys[i]) THEN [notice |-> n, panic |-> TRUE]
    ELSE blacklistFrom(keys, i + 1,
                       [n EXCEPT !.Env = filterByKey(@, keys[i]),
                                 !.Context = filterByKey(@, keys[i]),
                                 !.Session = filterByKey(@, keys[i])])

\* a filter that sets both entries whatever the options hold
notifierFilterAlways(o, n) ==
    [n EXCEPT !.Context = Put(Put(n.Context, <<"environment">>, Str(o.Environment)),
                              <<"revision">>, Str(o.Revision))]

\* the function newNotifierFilter returns
notifierFilter(o, n) ==
    LET c1 == IF o.Environment # <<>>
              THEN Put(n.Context, <<"environment">>, Str(o.Environment))
              ELSE n.Context
        c2 == IF o.Revision # <<>> THEN Put(c1, <<"revision">>, Str(o.Revision)) ELSE c1
    IN [n EXCEPT !.Context = c2]

\* filepath.SplitList: the elements between the ":" of s, none for ""
RECURSIVE splitFrom(_, _, _)
splitFrom(s, i, cur) ==
    IF i > Len(s) THEN <<cur>>
    ELSE IF s[i] = ":" THEN <<cur>> \o splitFrom(s, i + 1, <<>>)
    ELSE splitFrom(s, i + 1, Append(cur, s[i]))

SplitList(s) == IF s = <<>> THEN <<>> ELSE splitFrom(s, 1, <<>>)

\* filepath.Clean on a path without "." and ".." elements: one "/" for a run
\* of them, none at the end
RECURSIVE Clean(_, _)
Clean(p, i) ==
    IF i > Len(p) THEN <<>>
    ELSE IF p[i] = "/" /\ (IF i = Len(p) THEN i > 1 ELSE p[i + 1] = "/") THEN Clean(p, i + 1)
    ELSE <<p[i]>> \o Clean(p, i + 1)

\* filepath.Join(dir, "src"): an empty dir is left out
JoinSrc(dir) == IF dir = <<>> THEN <<"src">> ELSE Clean(dir \o <<"/", "src">>, 1)

\* strings.HasPrefix
HasPrefix(f, d) == Len(d) <= Len(f) /\ SubSeq(f, 1, Len(d)) = d

\* strings.Replace(f, d, "/GOPATH", 1) for a prefix d of f
ReplacePrefix(f, d) == <<"/", "GOPATH">> \o SubSeq(f, Len(d) + 1, Len(f))

\* for _, dir := range dirs { ...; if HasPrefix { Replace; break } }
RECURSIVE rewriteFile(_, _, _)
rewriteFile(file, dirs, k) ==
    IF k > Len(dirs) THEN file
    ELSE IF HasPrefix(file, JoinSrc(dirs[k])) THEN ReplacePrefix(file, JoinSrc(dirs[k]))
    ELSE rewriteFile(file, dirs, k + 1)

\* a rewrite that tries the roots from the last to the first
gopathFilterLast(n) ==
    LET g == AsString(n.Context, <<"gopath">>)
        dirs == SplitList(g.s)
        rev == [k \in 1..Len(dirs) |-> dirs[Len(dirs) + 1 - k]]
        frame(fr) == [fr EXCEPT !.File = rewriteFile(fr.File, rev, 1)]
        error(e) == [e EXCEPT !.Backtrace = [j \in DOMAIN e.Backtrace |-> frame(e.Backtrace[j])]]
    IN IF ~g.ok THEN n ELSE [n EXCEPT !.Errors = [i \in DOMAIN n.Errors |-> error(n.Errors[i])]]

gopathFilter(n) ==
    LET g == AsString(n.Context, <<"gopath">>)
        frame(fr) == [fr EXCEPT !.File = rewriteFile(fr.File, SplitList(g.s), 1)]
        error(e) == [e EXCEPT !.Backtrace = [j \in DOMAIN e.Backtrace |-> frame(e.Backtrace[j])]]
    IN IF ~g.ok THEN n ELSE [n EXCEPT !.Errors = [i \in DOMAIN n.Errors |-> error(n.Errors[i])]]

\* the version-control reader: what a lookup that succeeds returns
gitLastCheckout == [t |-> "checkout", v |-> <<"2020-06-18", "moving from master">>]

gitRevision == <<"8d2ff4a">>

\* the outcomes of the two lookups of one application
VCSOutcomes == [checkout : {"ok", "err"}, revision : {"ok", "err"}]

\* a backfill that does not look for a revision in the context
gitRevisionFilterOverwrites(n, vcs) ==
    LET rootDir == AsString(n.Context, <<"rootDirectory">>).s
        c1 == IF vcs.checkout = "ok"
              THEN Put(n.Context, <<"lastCheckout">>, gitLastCheckout)
              ELSE n.Context
        c2 == IF vcs.revision = "ok" THEN Put(c1, <<"revision">>, Str(gitRevision)) ELSE c1
    IN IF rootDir = <<>> THEN [notice |-> n, lookups |-> 0]
       ELSE [notice |-> [n EXCEPT !.Context = c2], lookups |-> 2]

\* gitRevisionFilter: the notice it returns and the number of lookups it made
gitRevisionFilter(n, vcs) ==
    LET rootDir == AsString(n.Context, <<"rootDirectory">>).s
        rev == AsString(n.Context, <<"revision">>).s
        c1 == IF vcs.checkout = "ok"
              THEN Put(n.Context, <<"lastCheckout">>, gitLastCheckout)
              ELSE n.Context
        c2 == IF vcs.revision = "ok" THEN Put(c1, <<"revision">>, Str(gitRevision)) ELSE c1
    IN IF rootDir = <<>> \/ rev # <<>> THEN [notice |-> n, lookups |-> 0]
       ELSE [notice |-> [n EXCEPT !.Context = c2], lookups |-> 2]

\* the variables of the store and its poller
storeVars ==
    <<opt, baseURL, JSON, poller, pollers, tickers, pc, cfg, url, sel, spc, sp, stopAt, rpc,
      rop, rptr, rsnaps, rret, cbCount, cbSeen, nfetch, nlogs, npoll, nstop, servedLate>>

\* filters applied to one notice
MaxApply == 2

UnsupportedKey == "unsupported blacklist key type"

Applied(name, keys, vcs, lookups) ==
    [name |-> name, keys |-> keys, vcs |-> vcs, lookups |-> lookups]

\* one application of a filter: f is the notice it returns
Apply(f, op) ==
    /\ notice' = f
    /\ before' = notice
    /\ fop' = op
    /\ napply' = napply + 1
    /\ UNCHANGED <<storeVars, panicked>>

Apply_BlacklistKeys(keys) ==
    /\ Running
    /\ napply < MaxApply
    /\ LET r == blacklistFrom(keys, 1, notice)
       IN IF r.panic
          THEN /\ notice' = r.notice
               /\ before' = notice
               /\ fop' = Applied("blacklist", keys, NoVCS, 0)
               /\ napply' = napply + 1
               /\ panicked' = [in |-> "filterByKey", msg |-> UnsupportedKey]
               /\ UNCHANGED storeVars
          ELSE Apply(r.notice, Applied("blacklist", keys, NoVCS, 0))

Apply_notifierFilter ==
    /\ Running
    /\ napply < MaxApply
    /\ Apply(notifierFilter(opt, notice), Applied("notifier", <<>>, NoVCS, 0))

Apply_gopathFilter ==
    /\ Running
    /\ napply < MaxApply
    /\ Apply(gopathFilter(notice), Applied("gopath", <<>>, NoVCS, 0))

Apply_gitRevisionFilter(vcs) ==
    /\ Running
    /\ napply < MaxApply
    /\ LET r == gitRevisionFilter(notice, vcs)
       IN Apply(r.notice, Applied("gitRevision", <<>>, vcs, r.lookups))

(***************************************************************************)
(* Specifications.                                                         *)
(***************************************************************************)
Reader ==
    \/ \E m \in Methods : Reader_call(m)
    \/ Reader_second
    \/ Reader_return

Poller ==
    \/ Poll_go
    \/ \E g \in Goroutines : fetchConfig_Get(g)
    \/ \E g \in Goroutines : \E resp \in Responses : fetchConfig_Return(g, resp)
    \/ \E g \in Goroutines : UpdateConfig_Stop(g)
    \/ \E g \in Goroutines : UpdateConfig_Set(g)
    \/ \E g \in Goroutines : UpdateConfig_NewTicker(g)
    \/ \E g \in Goroutines : UpdateConfig_cb(g)
    \/ \E k \in Loops : poll_select(k)
    \/ \E k \in Loops : poll_closer(k)
    \/ \E k \in Loops : poll_tick(k)
    \/ \E i \in DOMAIN tickers : TickerFire(i)
    \/ StopPolling_Stop
    \/ StopPolling_close

\* one store, polled once and stopped from another goroutine
Next == Poll \/ Poller

Spec == Init /\ [][Next]_vars

\* the steps of goroutine g: UpdateConfig and, for a loop, the select of poll
GoroutineStep(g) ==
    \/ fetchConfig_Get(g)
    \/ \E resp \in Responses : fetchConfig_Return(g, resp)
    \/ UpdateConfig_Stop(g)
    \/ UpdateConfig_Set(g)
    \/ UpdateConfig_NewTicker(g)
    \/ UpdateConfig_cb(g)
    \/ g \in Loops /\ (poll_select(g) \/ poll_closer(g) \/ poll_tick(g))

\* the scheduler runs every goroutine that can take a step, go starts the
\* loop, every http.Get returns, and an armed ticker whose channel is empty
\* sends its tick; nothing makes the application call Poll or StopPolling
Fairness ==
    /\ WF_vars(Poll_go)
    /\ \A g \in Goroutines : WF_vars(GoroutineStep(g))
    /\ WF_vars(\E i \in DOMAIN tickers : TickerFire(i))

SpecFair == Init /\ [][Next]_vars /\ Fairness

\* the same, with goroutines that read the derived values meanwhile
NextReaders == Poll \/ Poller \/ Reader

SpecReaders == Init /\ [][NextReaders]_vars

\* the same as Spec, with Poll called again on the store
NextRepoll == Poll \/ Repoll \/ Poller

SpecRepoll == Init /\ [][NextRepoll]_vars

\* the derived values on every small snapshot and every setting of the options
Names == {errorSetting, apmSetting, "other"}

Endpoints == {"", "http://api.newexample.com"}

Setting == [Name : Names, Enabled : BOOLEAN, Endpoint : Endpoints]

SettingsLists == UNION {[1..n -> Setting] : n \in 0..MaxSettings}

PollSecs == {I64(0), I64(-123), I64(-1), I64(1), I64(123), HugePollSec}

DeriveSnapshots ==
    {[PollSec |-> Zero64, ConfigRoute |-> <<>>, RemoteSettings |-> l] : l \in SettingsLists}
    \cup {[PollSec |-> n, ConfigRoute |-> r, RemoteSettings |-> <<>>] :
              n \in PollSecs, r \in {<<>>, Route1}}

\* the base hosts an application configures: none, one, one with a trailing slash
BaseURLs == {<<>>, <<"http://s3.test">>, <<"http://s3.test", "/">>}

DeriveOptions == {Options(e, a, b) : e \in BOOLEAN, a \in BOOLEAN, b \in BaseURLs}

InitDerive == \E o \in DeriveOptions : \E j \in DeriveSnapshots : InitWith(o, j) /\ FiltersIdle

SpecDerive == InitDerive /\ [][Reader]_vars

\* the poller of Spec on a store with the default base and on a store with a
\* configured base and another project id
RouteOptions ==
    {Options(FALSE, FALSE, <<>>),
     [Options(TRUE, FALSE, <<"http://s3.test">>) EXCEPT !.ProjectId = 105]}

InitRoutes == \E o \in RouteOptions : InitWith(o, EmptyJSON) /\ FiltersIdle

SpecRoutes == InitRoutes /\ [][Next]_vars

\* the filters on small notices: maps for the redaction, a gopath and
\* backtraces for the path rewriting, a root directory and a revision for the
\* version-control backfill
KeyLists ==
    { <<>>,
      <<StringKey(<<"pass", "word">>)>>,
      <<RegexpKey(FALSE, <<"_token">>, TRUE)>>,
      <<RegexpKey(TRUE, <<"pass">>, FALSE), StringKey(<<"other">>)>>,
      <<StringKey(<<"pass", "word">>), RegexpKey(FALSE, <<"_token">>, TRUE)>>,
      <<StringKey(<<"pass", "word">>), OtherKey>>,
      <<OtherKey, StringKey(<<"pass", "word">>)>> }

Secrets ==
    (<<"pass", "word">> :> Str(<<"x">>)) @@ (<<"other">> :> Str(<<"y">>))

Tokens ==
    (<<"access", "_token">> :> Str(<<"t">>)) @@ (<<"_token", "s">> :> Str(<<"u">>))
        @@ (<<"pass">> :> NonStr(<<"42">>))

RedactNotices ==
    [Env : {Secrets, Tokens}, Context : {<<>>, Secrets}, Session : {<<>>, Tokens},
     Errors : {<<>>}]

Frame(file) == [File |-> file, Line |-> 10]

Backtraces ==
    << [Backtrace |-> <<Frame(<<"/", "go", "/", "src", "/", "pkg", "/", "a.go">>),
                        Frame(<<"/", "usr", "/", "lib", "/", "c.go">>)>>],
       [Backtrace |-> <<Frame(<<"/", "work", "/", "src", "/", "b.go">>),
                        Frame(<<"/", "go", "/", "src", "/", "src", "/", "x.go">>),
                        Frame(<<"src", "/", "d.go">>)>>] >>

Gopaths ==
    { Str(<<"/", "go">>),
      Str(<<"/", "work", "/", ":", "/", "go">>),
      Str(<<"/", "go", ":", "/", "go", "/", "src">>),
      Str(<<"/", "go", "/", "src", ":", "/", "go">>),
      Str(<<":", "/", "go">>),
      Str(<<>>),
      NonStr(<<"42">>) }

PathNotices ==
    {[Env |-> <<>>, Context |-> <<>>, Session |-> <<>>, Errors |-> Backtraces]}
    \cup {[Env |-> <<>>, Context |-> (<<"gopath">> :> g), Session |-> <<>>,
           Errors |-> Backtraces] : g \in Gopaths}

NoEntry == [t |-> "absent", v |-> <<>>]

\* the map with the entries of m that are set
Entries(m) == [k \in {x \in DOMAIN m : m[x] # NoEntry} |-> m[k]]

RootDirs == {NoEntry, Str(<<>>), Str(<<"/", "repo">>), NonStr(<<"42">>)}

Revisions == {NoEntry, Str(<<>>), Str(<<"abc">>), NonStr(<<"42">>)}

VCSNotices ==
    {[Env |-> <<>>,
      Context |-> Entries((<<"rootDirectory">> :> d) @@ (<<"revision">> :> r)),
      Session |-> <<>>, Errors |-> <<>>] : d \in RootDirs, r \in Revisions}

Notices == RedactNotices \cup PathNotices \cup VCSNotices

FilterOptions ==
    {[Options(FALSE, FALSE, <<>>) EXCEPT !.Environment = e[1], !.Revision = e[2]] :
         e \in {<<<<>>, <<>>>>, <<<<"production">>, <<>>>>, <<<<"production">>, <<"v1">>>>}}

InitFilters ==
    /\ \E o \in FilterOptions : InitWith(o, EmptyJSON)
    /\ notice \in Notices
    /\ before = NoNotice
    /\ fop = NoFilter
    /\ napply = 0

NextFilters ==
    \/ \E keys \in KeyLists : Apply_BlacklistKeys(keys)
    \/ Apply_notifierFilter
    \/ Apply_gopathFilter
    \/ \E vcs \in VCSOutcomes : Apply_gitRevisionFilter(vcs)

SpecFilters == InitFilters /\ [][NextFilters]_vars

(***************************************************************************)
(* Properties of the derived values (SpecDerive).                          *)
(***************************************************************************)
\* the index of the first entry of l named c, 0 when there is none
FirstNamed(l, c) ==
    IF \E i \in 1..Len(l) : l[i].Name = c
    THEN CHOOSE i \in 1..Len(l) : l[i].Name = c /\ \A h \in 1..(i - 1) : l[h].Name # c
    ELSE 0

OfCategory(l, c) == SelectSeq(l, LAMBDA e : e.Name = c)

\* the endpoint of the first entry named c when it is set, else the default host
EndpointOrDefault(l, c, host) ==
    IF FirstNamed(l, c) # 0 /\ l[FirstNamed(l, c)].Endpoint # ""
    THEN l[FirstNamed(l, c)].Endpoint
    ELSE host

\* the enabled flag of the first entry named c, else the default
FlagOrDefault(l, c, dflt) ==
    IF FirstNamed(l, c) # 0 THEN l[FirstNamed(l, c)].Enabled ELSE dflt

Returned_(m) == rpc = "done" /\ rop = m

\* C1: for every settings list, ErrorHost and APMHost return the endpoint of
\* the first entry of their category when that entry exists and its endpoint
\* is not empty, wherever the entry stands in the list, and the default host
\* of the category in every other case.
C1_HostOfCategoryEntry ==
    /\ Returned_("ErrorHost") =>
           rret = EndpointOrDefault(JSON.RemoteSettings, errorSetting, opt.Host)
    /\ Returned_("APMHost") =>
           rret = EndpointOrDefault(JSON.RemoteSettings, apmSetting, opt.APMHost)

WideLimbs == 2 * Limbs

\* a sign-extended to w digits
SignExt(a, w) == [i \in 1..w |-> IF i <= Len(a) THEN a[i] ELSE IF IsNeg(a) THEN Base - 1 ELSE 0]

\* the product of two int64 values as an integer: 128 bits hold it
MulExact(a, b) == MulDigits(SignExt(a, WideLimbs), SignExt(b, WideLimbs), 1, 0)

\* 600 seconds, in nanoseconds
SixHundredSeconds == Mul64(I64(600), I64(1000000000))

\* C9: Interval returns n seconds, as a number of nanoseconds, for every
\* snapshot whose poll_sec n is strictly positive, and 600 seconds for every
\* snapshot whose poll_sec is zero or negative.
C9_IntervalIsPollSecSeconds ==
    Returned_("Interval") =>
        IF IsPos(JSON.PollSec)
        THEN SignExt(rret, WideLimbs) = MulExact(JSON.PollSec, I64(1000000000))
        ELSE rret = SixHundredSeconds

\* C10: EnabledErrorNotifications and EnabledAPM return the enabled flag of
\* the first entry of their category, wherever it stands in the list, and the
\* default of the static options when the list has no such entry; the entries
\* of other categories do not change the result.
C10_EnabledOfCategoryEntry ==
    /\ Returned_("EnabledErrorNotifications") =>
           /\ rret = FlagOrDefault(JSON.RemoteSettings, errorSetting,
                                   ~opt.DisableErrorNotifications)
           /\ rret = FlagOrDefault(OfCategory(JSON.RemoteSettings, errorSetting),
                                   errorSetting, ~opt.DisableErrorNotifications)
    /\ Returned_("EnabledAPM") =>
           /\ rret = FlagOrDefault(JSON.RemoteSettings, apmSetting, ~opt.DisableAPM)
           /\ rret = FlagOrDefault(OfCategory(JSON.RemoteSettings, apmSetting),
                                   apmSetting, ~opt.DisableAPM)

\* the entry of the category stands second, behind an entry of the other
\* category, and its flag differs from the default
C10_Witness ==
    /\ Returned_("EnabledErrorNotifications")
    /\ Len(JSON.RemoteSettings) = 2
    /\ JSON.RemoteSettings[1].Name = apmSetting
    /\ JSON.RemoteSettings[1].Enabled
    /\ JSON.RemoteSettings[2].Name = errorSetting
    /\ ~JSON.RemoteSettings[2].Enabled
    /\ ~opt.DisableErrorNotifications
    /\ rret = FALSE

(***************************************************************************)
(* Properties of the poller (Spec, SpecReaders, SpecRepoll).               *)
(***************************************************************************)
\* the ticker rc.poller holds
Current == pollers[poller].ticker

OneSecond == Mul64(I64(1), I64(1000000000))

C3_ErrorForEveryNon200 ==
    [][\A g \in Goroutines : \A resp \in Responses :
          (fetchConfig_Return(g, resp) /\ resp.kind = "response" /\ resp.status # 200) =>
              /\ fetchConfig(resp, JSON).err # <<>>
              /\ pc'[g] = Returned(g)]_vars

C4_Order ==
    \A g \in Goroutines :
        /\ pc[g] \in {"set", "arm"} => ~tickers[Current].armed
        /\ pc[g] \in {"arm", "cb"} => JSON = cfg[g]
        /\ pc[g] = "cb" =>
               /\ Current = Len(tickers)
               /\ tickers[Current].d = Interval(cfg[g])
               /\ tickers[Current].armed \/ spc = "close" \/ nstop > 0
               /\ \A i \in 1..(Current - 1) : ~tickers[i].armed

C4_Settled ==
    (\A g \in Goroutines : pc[g] \notin {"arm", "cb"}) =>
        JSON = IF cbCount = 0 THEN EmptyJSON ELSE cbSeen

C4_Callback ==
    /\ cbCount' # cbCount =>
           \E g \in Goroutines :
               /\ pc[g] = "cb"
               /\ pc'[g] = Returned(g)
               /\ cbCount' = cbCount + 1
               /\ cbSeen' = cfg[g]
               /\ JSON' = cfg[g]
    /\ \A g \in Goroutines : (pc[g] = "cb" /\ pc'[g] # "cb") => cbCount' = cbCount + 1

\* C4: a fetch-and-apply that succeeds stops the current ticker, then replaces
\* the snapshot by the fetched one, then arms a new ticker with the Interval of
\* the new snapshot, and only then calls the callback, once: the callback
\* finds the new snapshot in the store, and so does the caller of Poll.
C4_StopReplaceRearmCallback == [](C4_Order /\ C4_Settled) /\ [][C4_Callback]_vars

\* Poll has returned after fetching poll_sec = 1: the callback saw it and the
\* new ticker has a period of one second
C4_Witness ==
    /\ pc[0] = "returned"
    /\ cbCount = 1
    /\ cbSeen = JSON
    /\ JSON.PollSec = I64(1)
    /\ Interval(JSON) = OneSecond
    /\ tickers[Current].d = OneSecond
    /\ tickers[Current].armed
    /\ ~tickers[1].armed

\* C5: StopPolling never panics, whatever the state of the poller: idle,
\* running or stopped before.
C5_StopPollingNeverPanics == panicked.in # "StopPolling"

\* C6: once StopPolling has returned, the loop serves no tick any more: it
\* starts no fetch-and-apply after its closer was closed.
C6_NoFetchAfterStop == ~servedLate

\* C7: every call of a derived value returns what the method gives on one of
\* the snapshots that were current during the call.
C7_ReadOfOneSnapshot ==
    rpc = "done" => \E j \in rsnaps \ {NilJSON} : rret = Eval(rop, j)

Live == {k \in Loops : pc[k] \notin {"none", "exited"}}

Armed == {i \in DOMAIN tickers : tickers[i].armed}

\* C8: whatever Poll and StopPolling calls were made, the store has at most
\* one live loop and at most one armed ticker.
C8_OneLoopOneTicker == Cardinality(Live) <= 1 /\ Cardinality(Armed) <= 1

(***************************************************************************)
(* Properties of the route (SpecRoutes, SpecDerive).                       *)
(***************************************************************************)
\* the decimal text of the project ids of the model
Decimal(p) == CASE p = 1 -> <<"1">> [] p = 105 -> <<"1", "0", "5">>

\* "{base}/2020-06-18/config/{P}/config.json"
RouteText(base, p) ==
    base \o <<"/", "2020-06-18", "/", "config", "/">> \o Decimal(p) \o <<"/", "config.json">>

\* the configured base host, the default base URL when none is configured
ConfiguredBase ==
    IF opt.RemoteConfigBaseURL = <<>>
    THEN <<"https://v1-staging-notifier-configs.s3.amazonaws.com">>
    ELSE opt.RemoteConfigBaseURL

TrimSlash(b) == IF b # <<>> /\ b[Len(b)] = "/" THEN SubSeq(b, 1, Len(b) - 1) ELSE b

NoDoubleSeparator(s) == \A i \in 1..(Len(s) - 1) : ~(s[i] = "/" /\ s[i + 1] = "/")

\* C12: for a base host given with a trailing slash ConfigRoute returns the
\* route it returns for the base host without it, and the route has no double
\* separator.
C12_TrailingSeparatorNormalized ==
    (Returned_("ConfigRoute") /\ JSON.ConfigRoute = <<>>) =>
        /\ rret = RouteText(TrimSlash(ConfiguredBase), opt.ProjectId)
        /\ NoDoubleSeparator(rret)

(***************************************************************************)
(* Properties of the schedule of the fetches (Spec).                       *)
(***************************************************************************)
InUpdateConfig == {"wait", "stop", "set", "arm", "cb"}

NoLoopYet == \A k \in Loops : pc[k] = "none"

C13_Synchronous ==
    /\ pc[0] \in {"idle", "get"} => nfetch = 0 /\ NoLoopYet
    /\ pc[0] \in InUpdateConfig \cup {"go"} => nfetch = 1 /\ NoLoopYet
    /\ pc[0] = "returned" => nfetch >= 1
    /\ pc[0] \in {"go", "returned"} => cfg[0] = NilJSON /\ url[0] = <<>>

C13_FetchStep ==
    /\ nfetch' # nfetch =>
           \E g \in Goroutines :
               /\ pc[g] = "get"
               /\ pc'[g] = "wait"
               /\ nfetch' = nfetch + 1
               /\ g = 0 <=> nfetch = 0
    /\ \A k \in Loops :
           (pc[k] # "get" /\ pc'[k] = "get") =>
               /\ pc[k] = "blocked"
               /\ tickers[sel[k].t].tick
               /\ ~tickers'[sel[k].t].tick
    /\ (pc[0] = "go" /\ pc'[0] = "returned") => pc[1] = "none" /\ pc'[1] = "select"

HasMember(body, k) == \E i \in 1..Len(body.members) : body.members[i].k = k

\* status 200 and a JSON object without poll_sec, config_route and settings
MissingFields(resp) ==
    /\ resp.kind = "response"
    /\ resp.status = 200
    /\ resp.body.text = <<"{", "}">>
    /\ \A k \in {"poll_sec", "config_route", "settings"} : ~HasMember(resp.body, k)

\* every derived value of snapshot j is the default
AllDefaults(j) ==
    /\ Interval(j) = SixHundredSeconds
    /\ EnabledErrorNotifications(j, opt) = ~opt.DisableErrorNotifications
    /\ EnabledAPM(j, opt) = ~opt.DisableAPM
    /\ ErrorHost(j, opt) = opt.Host
    /\ APMHost(j, opt) = opt.APMHost
    /\ ConfigRoute(j, opt, baseURL) = RouteText(ConfiguredBase, opt.ProjectId)

C14_Fetched ==
    \A g \in Goroutines : \A resp \in Responses :
        (fetchConfig_Return(g, resp) /\ MissingFields(resp)) =>
            /\ fetchConfig(resp, JSON).err = <<>>
            /\ nlogs' = nlogs
            /\ pc'[g] = "stop"
            /\ cfg'[g] = EmptyJSON
            /\ AllDefaults(cfg'[g])

C14_Applied ==
    \A g \in Goroutines :
        (cfg[g] = EmptyJSON /\ pc[g] \in {"stop", "set", "arm", "cb"}) =>
            /\ panicked'.in # "UpdateConfig"
            /\ nlogs' = nlogs
            /\ pc[g] = "stop" => pc'[g] \in {"stop", "set"}
            /\ pc[g] = "set" => pc'[g] \in {"set", "arm"}
            /\ pc[g] = "arm" => pc'[g] \in {"arm", "cb"}
            /\ pc'[g] \in {"arm", "cb"} => JSON' = EmptyJSON
            /\ pc[g] = "cb" => pc'[g] \in {"cb", Returned(g)}
            /\ (pc[g] = "cb" /\ pc'[g] # "cb") =>
                   /\ cbCount' = cbCount + 1
                   /\ cbSeen' = EmptyJSON
                   /\ JSON' = EmptyJSON
                   /\ AllDefaults(JSON')

Maps == {"Env", "Context", "Session"}

MapOf(n, m) == CASE m = "Env" -> n.Env [] m = "Context" -> n.Context [] m = "Session" -> n.Session

\* k is pre \o lit \o post, with pre empty for ^ and post empty for $
PatternHits(key, k) ==
    \E a \in 0..Len(k) : \E b \in 0..Len(k) :
        /\ a + Len(key.lit) + b = Len(k)
        /\ SubSeq(k, a + 1, a + Len(key.lit)) = key.lit
        /\ key.bol => a = 0
        /\ key.eol => b = 0

\* k equals an exact key of the list or matches one of its patterns
Redacted(keys, k) ==
    \E i \in 1..Len(keys) :
        \/ keys[i].type = "string" /\ keys[i].lit = k
        \/ keys[i].type = "regexp" /\ PatternHits(keys[i], k)

OnlyStringsAndPatterns(keys) == \A i \in 1..Len(keys) : keys[i].type \in {"string", "regexp"}

\* C15: the filter of NewBlacklistKeysFilter with exact keys and patterns
\* leaves the set of keys of Env, Context and Session as it is, sets the value
\* of every key that equals an exact key or matches a pattern to "[Filtered]"
\* and leaves the value of every other key as it is.
C15_RedactsMatchingKeysOnly ==
    (fop.name = "blacklist" /\ OnlyStringsAndPatterns(fop.keys)) =>
        /\ Running
        /\ notice.Errors = before.Errors
        /\ \A m \in Maps :
               /\ DOMAIN MapOf(notice, m) = DOMAIN MapOf(before, m)
               /\ \A k \in DOMAIN MapOf(before, m) :
                      MapOf(notice, m)[k] =
                          IF Redacted(fop.keys, k) THEN [t |-> "string", v |-> <<"[Filtered]">>]
                          ELSE MapOf(before, m)[k]

\* an exact key and a pattern were applied to a notice whose maps hold keys
\* that match and keys that do not
C15_Witness ==
    /\ fop.name = "blacklist"
    /\ fop.keys = <<StringKey(<<"pass", "word">>), RegexpKey(FALSE, <<"_token">>, TRUE)>>
    /\ before.Env = Tokens
    /\ before.Context = Secrets
    /\ before.Session = Tokens
    /\ notice.Context[<<"pass", "word">>] = Str(<<"[Filtered]">>)
    /\ notice.Context[<<"other">>] = Str(<<"y">>)
    /\ notice.Env[<<"access", "_token">>] = Str(<<"[Filtered]">>)
    /\ notice.Env[<<"_token", "s">>] = Str(<<"u">>)
    /\ notice.Session[<<"access", "_token">>] = Str(<<"[Filtered]">>)
    /\ notice.Session[<<"pass">>] = NonStr(<<"42">>)

\* the keys the options make the filter set
SetByOptions ==
    (IF opt.Environment # <<>> THEN {<<"environment">>} ELSE {})
        \cup (IF opt.Revision # <<>> THEN {<<"revision">>} ELSE {})

C16_SetsOnly ==
    fop.name = "notifier" =>
        /\ notice.Env = before.Env
        /\ notice.Session = before.Session
        /\ notice.Errors = before.Errors
        /\ DOMAIN notice.Context = DOMAIN before.Context \cup SetByOptions
        /\ \A k \in DOMAIN notice.Context :
               notice.Context[k] =
                   IF k \in SetByOptions
                   THEN [t |-> "string",
                         v |-> IF k = <<"environment">> THEN opt.Environment ELSE opt.Revision]
                   ELSE before.Context[k]

\* the filter applied to the notice it has just returned
C16_Again ==
    (fop.name = "notifier" /\ fop'.name = "notifier" /\ napply' = napply + 1) =>
        notice' = notice

\* C16: the filter of newNotifierFilter sets Context["environment"] only for a
\* non-empty environment of the options and Context["revision"] only for a
\* non-empty revision, changes nothing else of the notice, and applied a
\* second time it returns the notice the first application returned.
C16_EnrichmentIdempotent == []C16_SetsOnly /\ [][C16_Again]_vars

\* the filter was applied twice with an environment and a revision, to a
\* notice that had other entries in its context
C16_Witness ==
    /\ napply = 2
    /\ fop.name = "notifier"
    /\ opt.Environment = <<"production">>
    /\ opt.Revision = <<"v1">>
    /\ before = notice
    /\ DOMAIN notice.Context =
           {<<"environment">>, <<"revision">>, <<"pass", "word">>, <<"other">>}
    /\ notice.Context[<<"environment">>] = Str(<<"production">>)
    /\ notice.Context[<<"revision">>] = Str(<<"v1">>)
    /\ notice.Context[<<"other">>] = Str(<<"y">>)

(***************************************************************************)
(* Properties of the loop under fair scheduling (SpecFair).                *)
(***************************************************************************)
StopCalled == spc # "idle" \/ nstop > 0

C17_Suppressed ==
    \A g \in Goroutines : \A resp \in Responses :
        (fetchConfig_Return(g, resp) /\ fetchConfig(resp, JSON).err # <<>>) =>
            /\ nlogs' >= nlogs + 1
            /\ panicked' = NoPanic
            /\ pc'[g] = IF g = 0 THEN "go" ELSE "select"

C17_TickPending ==
    /\ Running
    /\ ~StopCalled
    /\ \E k \in Loops :
           /\ pc[k] \in {"select", "blocked"}
           /\ tickers[pollers[poller].ticker].tick

C17_Served == (\E k \in Loops : pc[k] = "get") \/ StopCalled

\* C17: a fetch that fails is logged and is suppressed where it was started:
\* Poll goes on to start the loop and the loop goes back to its select, they
\* neither return early nor panic; and a tick that is pending while the loop
\* waits is eventually taken by the loop, which then calls UpdateConfig for
\* another fetch, unless StopPolling is called first.
C17_FailedFetchKeepsPolling == [][C17_Suppressed]_vars /\ (C17_TickPending ~> C17_Served)

\* the fetch of Poll failed, the fetch of the first tick failed, and the loop
\* has taken the next tick
C17_Witness ==
    /\ Running
    /\ ~StopCalled
    /\ pc[1] = "get"
    /\ nfetch = 2
    /\ nlogs >= 2
    /\ cbCount = 0
    /\ Len(tickers) = 1
    /\ tickers[1].armed

\* C18: once StopPolling has returned on a running poller and the loop has
\* exited, the poller is stopped for good: no ticker is armed, also when a
\* fetch-and-apply was in flight during the call and completed after it.
C18_StoppedLeavesNoTicker ==
    (stopAt \in {"waiting", "fetching"} /\ nstop > 0 /\ Live = {}) => Armed = {}

\* the entry of the context of n under key k
EntryOf(n, k) == IF k \in DOMAIN n.Context THEN n.Context[k] ELSE NoEntry

\* the context of n names a root directory: a non-empty string
HasRootDirectory(n) ==
    EntryOf(n, <<"rootDirectory">>).t = "string" /\ EntryOf(n, <<"rootDirectory">>).v # <<>>

\* the context of n carries a revision: a non-empty string
HasRevision(n) == EntryOf(n, <<"revision">>).t = "string" /\ EntryOf(n, <<"revision">>).v # <<>>

\* C19: gitRevisionFilter returns the notice and never panics; for a context
\* without a root directory or with a non-empty revision it returns the notice
\* as it is and makes no lookup; a lookup that fails adds no entry, the notice
\* is as it was when both fail, a revision the context carries is never
\* replaced, and nothing but "lastCheckout" and "revision" ever changes.
C19_BackfillNeverFailsOrOverwrites ==
    fop.name = "gitRevision" =>
        /\ Running
        /\ notice.Env = before.Env
        /\ notice.Session = before.Session
        /\ notice.Errors = before.Errors
        /\ \A k \in (DOMAIN notice.Context \cup DOMAIN before.Context)
                      \ {<<"lastCheckout">>, <<"revision">>} :
               EntryOf(notice, k) = EntryOf(before, k)
        /\ (~HasRootDirectory(before) \/ HasRevision(before)) =>
               notice = before /\ fop.lookups = 0
        /\ fop.vcs.checkout = "err" =>
               EntryOf(notice, <<"lastCheckout">>) = EntryOf(before, <<"lastCheckout">>)
        /\ fop.vcs.revision = "err" =>
               EntryOf(notice, <<"revision">>) = EntryOf(before, <<"revision">>)
        /\ (fop.vcs.checkout = "err" /\ fop.vcs.revision = "err") => notice = before
        /\ HasRevision(before) => EntryOf(notice, <<"revision">>) = EntryOf(before, <<"revision">>)

\* both lookups were made for a context with a root directory and no
\* revision, both failed, and the notice is as it was
C19_Witness ==
    /\ fop.name = "gitRevision"
    /\ fop.lookups = 2
    /\ fop.vcs = [checkout |-> "err", revision |-> "err"]
    /\ EntryOf(before, <<"rootDirectory">>) = Str(<<"/", "repo">>)
    /\ EntryOf(before, <<"revision">>) = NoEntry
    /\ notice = before

\* the roots the context of n lists under "gopath"; none without a string
Roots(n) ==
    IF EntryOf(n, <<"gopath">>).t = "string" THEN SplitList(EntryOf(n, <<"gopath">>).v)
    ELSE <<>>

\* the roots of the list whose src directory starts the path
MatchingRoots(file, roots) == {k \in 1..Len(roots) : HasPrefix(file, JoinSrc(roots[k]))}

\* the path with the src directory of the first matching root replaced once
FirstRootRewrite(file, roots) ==
    IF MatchingRoots(file, roots) = {} THEN file
    ELSE LET k == CHOOSE m \in MatchingRoots(file, roots) :
                      \A o \in MatchingRoots(file, roots) : m <= o
         IN <<"/", "GOPATH">> \o SubSeq(file, Len(JoinSrc(roots[k])) + 1, Len(file))

\* C20: gopathFilter rewrites the file of every frame of every error by the
\* first root in list order whose src directory starts it, the prefix replaced
\* once by "/GOPATH"; a frame that no root matches, a notice without a gopath
\* string, and everything but the files stay as they were.
C20_FirstMatchingRootRewritten ==
    fop.name = "gopath" =>
        /\ Running
        /\ notice.Env = before.Env
        /\ notice.Context = before.Context
        /\ notice.Session = before.Session
        /\ DOMAIN notice.Errors = DOMAIN before.Errors
        /\ \A i \in DOMAIN before.Errors :
              /\ DOMAIN notice.Errors[i].Backtrace = DOMAIN before.Errors[i].Backtrace
              /\ \A j \in DOMAIN before.Errors[i].Backtrace :
                    /\ notice.Errors[i].Backtrace[j].Line = before.Errors[i].Backtrace[j].Line
                    /\ notice.Errors[i].Backtrace[j].File =
                           FirstRootRewrite(before.Errors[i].Backtrace[j].File, Roots(before))
        /\ EntryOf(before, <<"gopath">>).t # "string" => notice = before

\* a frame under the src directory of both roots of "/go:/go/src" was
\* rewritten by the first one, next to a frame that no root matches
C20_Witness ==
    /\ fop.name = "gopath"
    /\ EntryOf(before, <<"gopath">>) = Str(<<"/", "go", ":", "/", "go", "/", "src">>)
    /\ Len(before.Errors) = 2
    /\ before.Errors[2].Backtrace[2].File = <<"/", "go", "/", "src", "/", "src", "/", "x.go">>
    /\ notice.Errors[2].Backtrace[2].File = <<"/", "GOPATH", "/", "src", "/", "x.go">>
    /\ notice.Errors[1].Backtrace[2].File = <<"/", "usr", "/", "lib", "/", "c.go">>

\* the key list of the redaction filter applied last holds a key that is
\* neither a string nor a pattern
HasUnsupportedKey == \E i \in 1..Len(fop.keys) : Unsupported(fop.keys[i])

\* C21: a redaction filter whose key list holds a key that is neither a
\* string nor a pattern always panics when it is applied, and it panics
\* before any value of the notice has been redacted by another key.
C21_UnsupportedKeyFailsFast ==
    (fop.name = "blacklist" /\ HasUnsupportedKey) =>
        /\ ~Running
        /\ panicked.in = "filterByKey"
        /\ notice = before

\* C22: the store always holds a snapshot: after any fetches, failed or
\* not, with any body that parses as JSON, the body "null" among them,
\* rc.JSON is not nil.
C22_SnapshotNeverNil == JSON # NilJSON

\* C23: every ticker the poller arms has a strictly positive period: for
\* every poll_sec a fetched snapshot carries, the duration that Interval
\* returns to Poll and to UpdateConfig, the product taken modulo 2^64, is
\* greater than zero, and time.NewTicker never panics on it.
C23_TimerPeriodPositive ==
    /\ panicked.msg # BadInterval
    /\ \A i \in 1..Len(tickers) : IsPos(tickers[i].d)
    /\ \A g \in Goroutines : (pc[g] = "arm" /\ JSON # NilJSON) => IsPos(Interval(JSON))

====
